---- MODULE Spec2Model ----
(***************************************************************************)
(* Verification model of the PBB-P2 arrears verification app:              *)
(*   - geminiService (src/unnamed/part_000): withRetry, processTaxPDF      *)
(*   - App.tsx: handleFileUpload, clearData, exportToCSV, handleSelectKey, *)
(*     generateSummary                                                     *)
(*                                                                         *)
(* Strings that the code inspects with String.includes are modelled as     *)
(* sequences of one-character strings, so that substring search is         *)
(* computed.  An optional number (number | null) is <<>> for null and      *)
(* <<v>> for the number v.                                                 *)
(***************************************************************************)
EXTENDS Integers, Sequences, FiniteSets, TLC

VARIABLES
  START_YEAR,   \* constants.ts START_YEAR (imported, part_000:3)
  END_YEAR,     \* constants.ts END_YEAR
  records,      \* App state: useState<TaxRecord[]>
  isLoading,    \* App state
  error,        \* App state: the error banner
  hasUserKey,   \* App state
  keyDialog,    \* handleSelectKey calls awaiting window.aistudio.openSelectKey()
  inputValue,   \* event.target.value of the file input
  active,       \* the running handleFileUpload invocations, with their locals
  last,         \* observation of the handleFileUpload invocation that settled last
  picked,       \* number of files picked so far in the session
  rs,           \* withRetry under test: its locals
  log,          \* withRetry under test: the events so far
  ret,          \* withRetry under test: how it settled
  item,         \* normalisation under test: one item of rawData
  out,          \* normalisation under test: the record built from item
  summary       \* the ValidationSummary of the last render

vars == <<START_YEAR, END_YEAR, records, isLoading, error, hasUserKey, keyDialog,
          inputValue, active, last, picked, rs, log, ret, item, out,
          summary>>

appVars == <<records, isLoading, error, hasUserKey, keyDialog, inputValue, active,
             last, picked>>
retryVars == <<rs, log, ret>>
normVars == <<item, out>>
yearVars == <<START_YEAR, END_YEAR>>

----------------------------------------------------------------------------
(* Bounds of the model *)

MaxFiles == 3        \* files picked over one session
MinYear == 2019      \* the earliest year a document mentions
YearSpan == 3        \* documents mention MinYear .. MinYear + YearSpan
MaxArrears == 2      \* yearly entries of one extracted item
MaxRecords == 5      \* length of the record list given to generateSummary

(* Program constants *)

DefaultMaxRetries == 3
InitialDelay == 2000
InterFileDelay == 1500

----------------------------------------------------------------------------
(* Strings *)

\* String.prototype.includes
Includes(s, p) ==
  \E k \in 0..(Len(s) - Len(p)) : SubSeq(s, k + 1, k + Len(p)) = p

S429 == <<"4", "2", "9">>
S500 == <<"5", "0", "0">>
S503 == <<"5", "0", "3">>

\* An error object: message is undefined when hasMessage is FALSE.
Err(msg) == [hasMessage |-> TRUE, message |-> msg]
ErrNoMessage == [hasMessage |-> FALSE, message |-> <<>>]
NoError == [hasMessage |-> FALSE, message |-> <<"-">>]

\* The errors generateContent may reject with.
ApiErrors ==
  { Err(<<"e", ":", "4", "2", "9">>),      \* rate limited
    Err(<<"5", "0", "0", " ", "x">>),      \* internal error
    Err(<<"a", "5", "0", "3", "b">>),      \* unavailable
    Err(<<"4", "0", "0">>),                \* bad request
    Err(<<"4", "2", " ", "9">>),           \* digits of 429, not contiguous
    Err(<<>>),                             \* empty message
    ErrNoMessage }                         \* no message at all

----------------------------------------------------------------------------
(* withRetry (src/unnamed/part_000:31-45) *)

\* a withRetry that retries whatever the error
IsRetryableAny(err) == TRUE

\* line 37: err?.message?.includes('429') || ...('500') || ...('503')
IsRetryable(err) ==
  /\ err.hasMessage
  /\ \/ Includes(err.message, S429)
     \/ Includes(err.message, S500)
     \/ Includes(err.message, S503)

MaxRetriesExceeded == Err(<<"M", "a", "x">>)   \* line 44

\* lines 32-35: delay = 2000, i = 0, the first fn() is awaited
RetryStart(maxRetries) ==
  IF 0 < maxRetries
    THEN [maxRetries |-> maxRetries, i |-> 0, delay |-> InitialDelay,
          status |-> "calling", err |-> NoError]
    ELSE [maxRetries |-> maxRetries, i |-> 0, delay |-> InitialDelay,
          status |-> "thrown", err |-> MaxRetriesExceeded]

\* line 35: fn() resolved, withRetry returns its value
OnResolve(st) == [st EXCEPT !.status = "returned"]

\* a withRetry whose last-attempt test is off by one (i === maxRetries)
OnRejectOffByOne(st, e) ==
  IF st.i = st.maxRetries \/ ~IsRetryable(e)
    THEN [st EXCEPT !.status = "thrown", !.err = e]
    ELSE [st EXCEPT !.status = "waiting"]

\* lines 36-40: fn() rejected with err
OnReject(st, e) ==
  IF st.i = st.maxRetries - 1 \/ ~IsRetryable(e)
    THEN [st EXCEPT !.status = "thrown", !.err = e]
    ELSE [st EXCEPT !.status = "waiting"]

\* a withRetry whose delay does not double
OnTimerFixedDelay(st) ==
  IF st.i + 1 < st.maxRetries
    THEN [st EXCEPT !.i = @ + 1, !.status = "calling"]
    ELSE [st EXCEPT !.i = @ + 1, !.status = "thrown", !.err = MaxRetriesExceeded]

\* lines 40-41, 33-35, 44: the timer fires, delay doubles, the loop goes on
OnTimer(st) ==
  IF st.i + 1 < st.maxRetries
    THEN [st EXCEPT !.i = @ + 1, !.delay = @ * 2, !.status = "calling"]
    ELSE [st EXCEPT !.i = @ + 1, !.delay = @ * 2, !.status = "thrown",
                    !.err = MaxRetriesExceeded]

(* withRetry on its own, for any behaviour of fn *)

Ev(e, ms, err, value) == [e |-> e, ms |-> ms, err |-> err, value |-> value]
EvCall == Ev("call", 0, NoError, "")
EvReject(err) == Ev("reject", 0, err, "")
EvWait(ms) == Ev("wait", ms, NoError, "")
EvResolve(v) == Ev("resolve", 0, NoError, v)

FnValues == {"r1", "r2"}

Settled(kind, value, err) == [kind |-> kind, value |-> value, err |-> err]
NotSettled == Settled("none", "", NoError)

RetryIdle == [maxRetries |-> 0, i |-> 0, delay |-> 0, status |-> "idle", err |-> NoError]

\* fn() resolves with v
WithRetryFnResolves ==
  /\ rs.status = "calling"
  /\ \E v \in FnValues :
       /\ rs' = OnResolve(rs)
       /\ log' = Append(log, EvResolve(v))
       /\ ret' = Settled("value", v, NoError)
  /\ UNCHANGED <<yearVars, appVars, normVars, summary>>

\* fn() rejects with e
WithRetryFnRejects ==
  /\ rs.status = "calling"
  /\ \E e \in ApiErrors :
       LET st == OnReject(rs, e) IN
       /\ rs' = st
       /\ log' = IF st.status = "waiting"
                   THEN log \o <<EvReject(e), EvWait(st.delay)>>
                   ELSE Append(log, EvReject(e))
       /\ ret' = IF st.status = "thrown" THEN Settled("thrown", "", st.err) ELSE ret
  /\ UNCHANGED <<yearVars, appVars, normVars, summary>>

\* the setTimeout of line 40 fires
WithRetryTimer ==
  /\ rs.status = "waiting"
  /\ LET st == OnTimer(rs) IN
       /\ rs' = st
       /\ log' = IF st.status = "calling" THEN Append(log, EvCall) ELSE log
       /\ ret' = IF st.status = "thrown" THEN Settled("thrown", "", st.err) ELSE ret
  /\ UNCHANGED <<yearVars, appVars, normVars, summary>>

----------------------------------------------------------------------------
(* processTaxPDF: normalisation of the parsed response                     *)
(* (src/unnamed/part_000:79-107)                                           *)

Null == <<>>          \* null in Record<number, number | null>
Num(v) == <<v>>

\* a normalisation that starts every year at 0
InitYearsZero == [y \in START_YEAR..END_YEAR |-> Num(0)]

\* lines 82-85: every configured year starts as null
InitYears == [y \in START_YEAR..END_YEAR |-> Null]

\* line 89: a.year >= START_YEAR && a.year <= END_YEAR
InRange(year) == year >= START_YEAR /\ year <= END_YEAR

\* lines 88-92: item.arrears.forEach, in order; a later entry overwrites
RECURSIVE FillArrears(_, _)
FillArrears(arrearsMap, arrears) ==
  IF arrears = <<>> THEN arrearsMap
  ELSE LET a == Head(arrears) IN
       FillArrears(IF InRange(a.year)
                     THEN [y \in DOMAIN arrearsMap |->
                             IF y = a.year THEN Num(a.kurangBayar) ELSE arrearsMap[y]]
                     ELSE arrearsMap,
                   Tail(arrears))

\* a total that adds every amount, negative ones too
PositiveOrNegative(val) == IF val # Null THEN val[1] ELSE 0

\* line 97: numVal !== null && numVal > 0 ? numVal : 0
Positive(val) == IF val # Null /\ val[1] > 0 THEN val[1] ELSE 0

\* lines 95-98: Object.values(arrearsMap).reduce(...), keys in ascending order
RECURSIVE SumFrom(_, _, _)
SumFrom(arrearsMap, y, hi) ==
  IF y > hi THEN 0 ELSE Positive(arrearsMap[y]) + SumFrom(arrearsMap, y + 1, hi)

\* Object.values(...).reduce over a mapping keyed lo..hi
Total(arrearsMap) ==
  IF DOMAIN arrearsMap = {} THEN 0
  ELSE LET lo == CHOOSE y \in DOMAIN arrearsMap : \A z \in DOMAIN arrearsMap : y <= z
           hi == CHOOSE y \in DOMAIN arrearsMap : \A z \in DOMAIN arrearsMap : y >= z
       IN SumFrom(arrearsMap, lo, hi)

\* lines 79-107: the record built from one item of rawData
NormalizeItem(it) ==
  LET arrearsMap == FillArrears(InitYears, it.arrears) IN
  [nama |-> it.nama, nop |-> it.nop, arrears |-> arrearsMap,
   total |-> Total(arrearsMap), notes |-> <<>>]

\* line 79: rawData.map(...)
RECURSIVE MapNormalize(_)
MapNormalize(rawData) ==
  IF rawData = <<>> THEN <<>>
  ELSE <<NormalizeItem(Head(rawData))>> \o MapNormalize(Tail(rawData))

(* The items a response may hold (taxRecordSchema, lines 5-26) *)

Years == MinYear..(MinYear + YearSpan)
Amounts == {-4, 0, 3, 5}
Entry(year, amount) == [year |-> year, kurangBayar |-> amount]
Entries == {Entry(y, a) : y \in Years, a \in Amounts}

RECURSIVE SeqsUpTo(_, _)
SeqsUpTo(S, n) ==
  IF n = 0 THEN {<<>>}
  ELSE LET shorter == SeqsUpTo(S, n - 1) IN
       shorter \cup {Append(q, x) : q \in {r \in shorter : Len(r) = n - 1}, x \in S}

Item(nama, nop, arrears) == [nama |-> nama, nop |-> nop, arrears |-> arrears]
NoItem == Item("", "", <<>>)

\* processTaxPDF maps one item
Normalize ==
  /\ out = <<>>
  /\ out' = <<NormalizeItem(item)>>
  /\ UNCHANGED <<yearVars, appVars, retryVars, item, summary>>

----------------------------------------------------------------------------
(* generateSummary (src/App.tsx:112-133) *)

\* Array.prototype.indexOf: the first index holding x (0-based), -1 if none
IndexOf(s, x) ==
  IF \E k \in 1..Len(s) : s[k] = x
    THEN (CHOOSE k \in 1..Len(s) : s[k] = x /\ \A j \in 1..(k - 1) : s[j] # x) - 1
    ELSE -1

\* line 113: records.map(r => r.nop)
RECURSIVE Nops(_)
Nops(recs) == IF recs = <<>> THEN <<>> ELSE <<Head(recs).nop>> \o Nops(Tail(recs))

\* line 114: nops.filter((nop, index) => nops.indexOf(nop) !== index)
RECURSIVE FilterRepeats(_, _)
FilterRepeats(nops, index) ==
  IF index >= Len(nops) THEN <<>>
  ELSE (IF IndexOf(nops, nops[index + 1]) # index THEN <<nops[index + 1]>> ELSE <<>>)
       \o FilterRepeats(nops, index + 1)

\* a summary that reports every repeat
DistinctKeepAll(s) == s

\* line 130: Array.from(new Set(duplicates)), in order of first insertion
RECURSIVE Distinct(_)
Distinct(s) ==
  IF s = <<>> THEN <<>>
  ELSE LET front == Distinct(SubSeq(s, 1, Len(s) - 1))
           x == s[Len(s)]
       IN IF \E k \in 1..Len(front) : front[k] = x THEN front ELSE Append(front, x)

Abs(x) == IF x < 0 THEN -x ELSE x

\* lines 117-126: one message per record whose stored total is off by more than 0.01
RECURSIVE Anomalies(_)
Anomalies(recs) ==
  IF recs = <<>> THEN <<>>
  ELSE LET r == Head(recs) IN
       (IF 100 * Abs(Total(r.arrears) - r.total) > 1 THEN <<r.nop>> ELSE <<>>)
       \o Anomalies(Tail(recs))

generateSummary(recs) ==
  [totalRecords |-> Len(recs),
   duplicates |-> Distinct(FilterRepeats(Nops(recs), 0)),
   anomalies |-> Anomalies(recs)]

NoSummary == [totalRecords |-> -1, duplicates |-> <<>>, anomalies |-> <<>>]

\* line 135: const summary = generateSummary(), on a render of App
Render ==
  /\ summary = NoSummary
  /\ summary' = generateSummary(records)
  /\ UNCHANGED <<yearVars, appVars, retryVars, normVars>>

----------------------------------------------------------------------------
(* processTaxPDF: the response and its parse (src/unnamed/part_000:61-77)  *)

\* response.text: empty or undefined, the JSON text of rawData, or text that
\* is not JSON (chars, with pos the offset of the first character that is wrong)
TextEmpty == [kind |-> "empty", data |-> <<>>, chars |-> <<>>, pos |-> <<>>]
TextJson(rawData) == [kind |-> "json", data |-> rawData, chars |-> <<>>, pos |-> <<>>]
TextGarbage(chars, pos) == [kind |-> "garbage", data |-> <<>>, chars |-> chars, pos |-> pos]

\* The message of the SyntaxError JSON.parse throws depends on the engine: it
\* quotes the text (V8: Unexpected token 'E', "E429" is not valid JSON) or names
\* the offset (... in JSON at position 429).
SyntaxErrors(text) ==
  { Err(<<"\"">> \o text.chars \o <<"\"">>), Err(<<"@">> \o text.pos) }

\* line 77: JSON.parse(response.text || "[]"): the outcomes the engine may produce
JSONParse(text) ==
  IF text.kind = "garbage"
    THEN {[ok |-> FALSE, data |-> <<>>, err |-> e] : e \in SyntaxErrors(text)}
    ELSE {[ok |-> TRUE, data |-> text.data, err |-> NoError]}

\* The responses generateContent resolves with
ItemA == Item("a", "A", <<Entry(START_YEAR, 5), Entry(START_YEAR - 1, 3)>>)
ItemB == Item("b", "B", <<Entry(END_YEAR, 0)>>)

Responses ==
  { TextEmpty,
    TextJson(<<ItemA>>),
    TextJson(<<ItemB, ItemA>>),
    TextGarbage(<<"o", "k", "?">>, <<"0">>),
    TextGarbage(<<"E", "4", "2", "9">>, <<"0">>),
    TextGarbage(<<"[", "{">>, <<"4", "2", "9">>) }

----------------------------------------------------------------------------
(* App (src/App.tsx) *)

NullError == "null"
KuotaBanner == "Kuota API sistem saat ini penuh (Rate Limit Exceeded)."
GagalBanner == "Gagal memproses file."

QUOTA_EXCEEDED == <<"Q", "U", "O", "T", "A", "_", "E", "X", "C", "E", "E", "D", "E", "D">>
\* the TypeError of reading .includes of an undefined message
TypeErrorIncludes == Err(<<"T", "y", "p", "e", "E", "r", "r", "o", "r">>)

\* lines 57-62: catch (procErr)
InnerCatch(procErr) ==
  IF ~procErr.hasMessage THEN TypeErrorIncludes
  ELSE IF Includes(procErr.message, S429) THEN Err(QUOTA_EXCEEDED)
  ELSE procErr

\* lines 66-72: catch (err), the banner it sets
OuterCatch(err) ==
  IF err.hasMessage /\ (err.message = QUOTA_EXCEEDED \/ Includes(err.message, S429))
    THEN KuotaBanner
    ELSE GagalBanner

\* a handler that commits what it has when the batch fails
RecordsAfterBatchPartial(prev, newRecords, threw) == prev \o newRecords

\* line 65 (reached only when the try block did not throw): the record list
\* after the batch
RecordsAfterBatch(prev, newRecords, threw) ==
  IF threw THEN prev ELSE prev \o newRecords

\* an upload label that stays active while loading
UploadAlwaysEnabled == TRUE

\* line 165: the upload label takes no pointer events while isLoading
UploadEnabled == ~isLoading

\* line 40: the pause before a file that is not the first
NeedsPause(i) == i > 0

RECURSIVE Flatten(_)
Flatten(ss) == IF ss = <<>> THEN <<>> ELSE Head(ss) \o Flatten(Tail(ss))

Remove(s, k) == SubSeq(s, 1, k - 1) \o SubSeq(s, k + 1, Len(s))

\* the locals of one handleFileUpload invocation; reads, submitted, settled,
\* pauses, results and fnCalls observe what it did
NewHandler(n) ==
  [pc |-> "start", n |-> n, i |-> 0, newRecords |-> <<>>, retry |-> RetryIdle,
   reads |-> 0, submitted |-> 0, settled |-> 0, pauses |-> 0, results |-> <<>>,
   fnCalls |-> 0, pauseMs |-> 0]

NoRun ==
  [status |-> "none", n |-> 0, failedFile |-> 0, reads |-> 0, submitted |-> 0,
   results |-> <<>>, cause |-> "", banner |-> NullError, fnCalls |-> 0]

Finished(h, status, cause, banner) ==
  [status |-> status, n |-> h.n, failedFile |-> IF status = "failed" THEN h.i + 1 ELSE 0,
   reads |-> h.reads, submitted |-> h.submitted, results |-> h.results,
   cause |-> cause, banner |-> banner, fnCalls |-> h.fnCalls]

\* lines 36-52: the loop body up to await base64Promise
NextFile(h) ==
  IF NeedsPause(h.i)
    THEN [h EXCEPT !.pc = "pause", !.pauseMs = InterFileDelay]
    ELSE [h EXCEPT !.pc = "read", !.reads = @ + 1]

\* lines 26-52: the change event of the file input, with n files picked
handleFileUpload ==
  /\ UploadEnabled
  /\ \E n \in 0..(MaxFiles - picked) :
       IF n = 0
         THEN UNCHANGED appVars                    \* line 28
         ELSE /\ isLoading' = TRUE
              /\ error' = NullError
              /\ inputValue' = "files"
              /\ active' = Append(active, NextFile(NewHandler(n)))
              /\ picked' = picked + n
              /\ UNCHANGED <<records, hasUserKey, keyDialog, last>>
  /\ UNCHANGED <<yearVars, retryVars, normVars, summary>>

\* line 41: the 1500 ms timer fires; lines 44-52
PauseTimer ==
  /\ \E k \in DOMAIN active :
       /\ active[k].pc = "pause"
       /\ active' = [active EXCEPT ![k] = [@ EXCEPT !.pc = "read", !.reads = @ + 1,
                                                    !.pauses = @ + 1]]
  /\ UNCHANGED <<records, isLoading, error, hasUserKey, keyDialog, inputValue, last,
                 picked>>
  /\ UNCHANGED <<yearVars, retryVars, normVars, summary>>

\* lines 46-49, 52, 55 and part_000:61-62: reader.onload fires, processTaxPDF is
\* called, withRetry invokes fn
ReaderLoad ==
  /\ \E k \in DOMAIN active :
       /\ active[k].pc = "read"
       /\ active' = [active EXCEPT ![k] = [@ EXCEPT !.pc = "call",
                                                    !.retry = RetryStart(DefaultMaxRetries),
                                                    !.submitted = @ + 1,
                                                    !.fnCalls = 1]]
  /\ UNCHANGED <<records, isLoading, error, hasUserKey, keyDialog, inputValue, last,
                 picked>>
  /\ UNCHANGED <<yearVars, retryVars, normVars, summary>>

\* the read fails: the reader has no onerror handler (lines 44-51), so
\* base64Promise stays pending
ReaderError ==
  /\ \E k \in DOMAIN active :
       /\ active[k].pc = "read"
       /\ active' = [active EXCEPT ![k] = [@ EXCEPT !.pc = "readError"]]
  /\ UNCHANGED <<records, isLoading, error, hasUserKey, keyDialog, inputValue, last,
                 picked>>
  /\ UNCHANGED <<yearVars, retryVars, normVars, summary>>

\* lines 57-76: processTaxPDF rejected with procErr in handler k
BatchFails(k, procErr, cause) ==
  LET h == active[k]
      banner == OuterCatch(InnerCatch(procErr))
  IN /\ records' = RecordsAfterBatch(records, h.newRecords, TRUE)
     /\ error' = banner
     /\ isLoading' = FALSE
     /\ inputValue' = ""
     /\ active' = Remove(active, k)
     /\ last' = Finished([h EXCEPT !.settled = @ + 1], "failed", cause, banner)
     /\ UNCHANGED <<hasUserKey, keyDialog, picked>>

\* part_000:36-40: generateContent rejects
FnReject ==
  /\ \E k \in DOMAIN active : \E e \in ApiErrors :
       /\ active[k].pc = "call"
       /\ LET st == OnReject(active[k].retry, e) IN
            IF st.status = "waiting"
              THEN /\ active' = [active EXCEPT ![k] = [@ EXCEPT !.pc = "retryWait",
                                                                !.retry = st]]
                   /\ UNCHANGED <<records, isLoading, error, hasUserKey, keyDialog,
                                  inputValue, last, picked>>
              ELSE BatchFails(k, st.err, "api")
  /\ UNCHANGED <<yearVars, retryVars, normVars, summary>>

\* part_000:40-41, 33-35: the backoff timer fires and fn is invoked again
RetryTimer ==
  /\ \E k \in DOMAIN active :
       /\ active[k].pc = "retryWait"
       /\ LET st == OnTimer(active[k].retry) IN
            IF st.status = "calling"
              THEN /\ active' = [active EXCEPT ![k] = [@ EXCEPT !.pc = "call",
                                                                !.retry = st,
                                                                !.fnCalls = @ + 1]]
                   /\ UNCHANGED <<records, isLoading, error, hasUserKey, keyDialog,
                                  inputValue, last, picked>>
              ELSE BatchFails(k, st.err, "api")
  /\ UNCHANGED <<yearVars, retryVars, normVars, summary>>

\* part_000:35, 77-107 and App.tsx:55-56, 36-52, 65, 73-76: generateContent
\* resolves; the text is parsed and normalised, and the loop goes on
FnResolve ==
  /\ \E k \in DOMAIN active : \E text \in Responses : \E parsed \in JSONParse(text) :
       /\ active[k].pc = "call"
       /\ IF ~parsed.ok
            THEN BatchFails(k, parsed.err, "parse")
            ELSE LET result == MapNormalize(parsed.data)
                     h == [active[k] EXCEPT !.retry = OnResolve(@),
                                            !.newRecords = @ \o result,
                                            !.results = Append(@, result),
                                            !.settled = @ + 1,
                                            !.i = @ + 1]
                 IN IF h.i < h.n
                      THEN /\ active' = [active EXCEPT ![k] = NextFile(h)]
                           /\ UNCHANGED <<records, isLoading, error, hasUserKey,
                                          keyDialog, inputValue, last, picked>>
                      ELSE /\ records' = RecordsAfterBatch(records, h.newRecords, FALSE)
                           /\ isLoading' = FALSE
                           /\ inputValue' = ""
                           /\ active' = Remove(active, k)
                           /\ last' = Finished(h, "ok", "", NullError)
                           /\ UNCHANGED <<error, hasUserKey, keyDialog, picked>>
  /\ UNCHANGED <<yearVars, retryVars, normVars, summary>>

\* lines 79-82 (the Clear button is rendered when there are records, line 173)
clearData ==
  /\ Len(records) > 0
  /\ records' = <<>>
  /\ error' = NullError
  /\ UNCHANGED <<isLoading, hasUserKey, keyDialog, inputValue, active, last, picked>>
  /\ UNCHANGED <<yearVars, retryVars, normVars, summary>>

\* lines 84-110: a CSV file is built from records and downloaded (the button is
\* rendered when there are records, line 173); no state of App is written
exportToCSV ==
  /\ Len(records) > 0
  /\ UNCHANGED vars

\* lines 20-21: the key button (line 153) or the link of the quota banner
\* (line 207) is clicked; the dialog opens
handleSelectKey ==
  /\ ~hasUserKey \/ error = KuotaBanner
  /\ ~keyDialog
  /\ keyDialog' = TRUE
  /\ UNCHANGED <<records, isLoading, error, hasUserKey, inputValue, active, last,
                 picked>>
  /\ UNCHANGED <<yearVars, retryVars, normVars, summary>>

\* lines 22-23: openSelectKey() resolved
SelectKeyResolved ==
  /\ keyDialog
  /\ keyDialog' = FALSE
  /\ hasUserKey' = TRUE
  /\ error' = NullError
  /\ UNCHANGED <<records, isLoading, inputValue, active, last, picked>>
  /\ UNCHANGED <<yearVars, retryVars, normVars, summary>>

----------------------------------------------------------------------------
(* Specifications *)

AppIdle ==
  /\ records = <<>>
  /\ isLoading = FALSE
  /\ error = NullError
  /\ keyDialog = FALSE
  /\ inputValue = ""
  /\ active = <<>>
  /\ last = NoRun
  /\ picked = 0

RetryUnused == rs = RetryIdle /\ log = <<>> /\ ret = NotSettled
NormUnused == item = NoItem /\ out = <<>>

\* The App after it mounted (lines 10-18), with the configured years
Init ==
  /\ START_YEAR = MinYear + 1
  /\ END_YEAR = MinYear + YearSpan - 1
  /\ AppIdle
  /\ hasUserKey \in BOOLEAN
  /\ RetryUnused
  /\ NormUnused
  /\ summary = NoSummary

Next ==
  \/ handleFileUpload
  \/ PauseTimer
  \/ ReaderLoad
  \/ ReaderError
  \/ FnReject
  \/ RetryTimer
  \/ FnResolve
  \/ clearData
  \/ exportToCSV
  \/ handleSelectKey
  \/ SelectKeyResolved

Spec == Init /\ [][Next]_vars

\* withRetry(fn) just called, for any behaviour of fn
InitRetry ==
  /\ START_YEAR = MinYear + 1
  /\ END_YEAR = MinYear + YearSpan - 1
  /\ AppIdle
  /\ hasUserKey = FALSE
  /\ rs = RetryStart(DefaultMaxRetries)
  /\ log = <<EvCall>>
  /\ ret = NotSettled
  /\ NormUnused
  /\ summary = NoSummary

NextRetry == WithRetryFnResolves \/ WithRetryFnRejects \/ WithRetryTimer

SpecRetry == InitRetry /\ [][NextRetry]_vars

\* fn's promises settle and timers fire
FairSpecRetry == SpecRetry /\ WF_vars(NextRetry)

\* processTaxPDF's map callback, for any configured range and any item
InitNormalize ==
  /\ START_YEAR \in Years
  /\ END_YEAR \in Years
  /\ START_YEAR <= END_YEAR
  /\ AppIdle
  /\ hasUserKey = FALSE
  /\ RetryUnused
  /\ item \in {Item("n", "A", a) : a \in SeqsUpTo(Entries, MaxArrears)}
  /\ out = <<>>
  /\ summary = NoSummary

NextNormalize == Normalize

SpecNormalize == InitNormalize /\ [][NextNormalize]_vars

\* generateSummary, for any list of records processTaxPDF produces
SummaryItems ==
  { Item("a", "A", <<Entry(START_YEAR, 5)>>),
    Item("b", "B", <<>>),
    Item("c", "C", <<Entry(END_YEAR, 0), Entry(START_YEAR, 3)>>) }

InitSummary ==
  /\ START_YEAR = MinYear + 1
  /\ END_YEAR = MinYear + YearSpan - 1
  /\ records \in SeqsUpTo({NormalizeItem(it) : it \in SummaryItems}, MaxRecords)
  /\ isLoading = FALSE
  /\ error = NullError
  /\ keyDialog = FALSE
  /\ inputValue = ""
  /\ active = <<>>
  /\ last = NoRun
  /\ picked = 0
  /\ hasUserKey = FALSE
  /\ RetryUnused
  /\ NormUnused
  /\ summary = NoSummary

NextSummary == Render

SpecSummary == InitSummary /\ [][NextSummary]_vars

----------------------------------------------------------------------------
(* Properties *)

\* A handleFileUpload invocation settled in this step
BatchSettles == Len(active') < Len(active)

\* C1: a batch is all-or-nothing.  When a handleFileUpload invocation settles
\* after file k failed, that step leaves the record list as it was, files
\* 1..k-1 had succeeded and exactly k files were read and submitted; when it
\* settles with every file succeeded, the list becomes the previous list
\* followed by the results of all n files in file order.  No other step puts a
\* record in the list (the only other change is clearData emptying it).
C1_AllOrNothing ==
  [][ /\ (BatchSettles /\ last'.status = "failed") =>
           /\ records' = records
           /\ last'.failedFile \in 1..last'.n
           /\ Len(last'.results) = last'.failedFile - 1
           /\ last'.reads = last'.failedFile
           /\ last'.submitted = last'.failedFile
      /\ (BatchSettles /\ last'.status = "ok") =>
           /\ Len(last'.results) = last'.n
           /\ records' = records \o Flatten(last'.results)
      /\ records' # records =>
           \/ records' = <<>>
           \/ BatchSettles /\ last'.status = "ok" ]_vars

\* Three files, the first gave records, the second failed with an error that
\* is not retried: nothing was committed.
C1_Witness ==
  /\ last.status = "failed"
  /\ last.n = 3
  /\ last.failedFile = 2
  /\ last.fnCalls = 1
  /\ last.cause = "api"
  /\ Len(last.results) = 1
  /\ last.results[1] # <<>>
  /\ records = <<>>
  /\ active = <<>>

RECURSIVE Pow2(_)
Pow2(n) == IF n = 0 THEN 1 ELSE 2 * Pow2(n - 1)

\* the message names one of the three retryable status codes
NamesRetryableStatus(err) ==
  /\ err.hasMessage
  /\ \E code \in {S429, S500, S503} : Includes(err.message, code)

Count(s, e) == Cardinality({p \in 1..Len(s) : s[p].e = e})

\* C2: when withRetry returns a value after k failed invocations, the events
\* were exactly k times (invocation, retryable rejection, wait of
\* 2000 * 2^(j-1) ms) followed by the invocation that resolved with the value
\* returned: k + 1 invocations, k waits of 2000, 4000, ... ms, k < maxRetries.
C2_Backoff ==
  ret.kind = "value" =>
    LET k == Count(log, "reject") IN
    /\ k < rs.maxRetries
    /\ Len(log) = 3 * k + 2
    /\ Count(log, "call") = k + 1
    /\ Count(log, "wait") = k
    /\ \A j \in 1..k :
         /\ log[3 * j - 2] = EvCall
         /\ log[3 * j - 1].e = "reject"
         /\ NamesRetryableStatus(log[3 * j - 1].err)
         /\ log[3 * j] = EvWait(InitialDelay * Pow2(j - 1))
    /\ log[3 * k + 1] = EvCall
    /\ log[3 * k + 2] = EvResolve(ret.value)

\* fn failed twice with a 429 error and then succeeded
C2_Witness ==
  /\ ret.kind = "value"
  /\ Len(log) = 8
  /\ Includes(log[2].err.message, S429)
  /\ Includes(log[5].err.message, S429)
  /\ log[3].ms = 2000
  /\ log[6].ms = 4000
  /\ log[8].value = ret.value

\* C3: a rejection of fn whose message names none of 429, 500, 503 is the last
\* event of withRetry (no wait, no further invocation) and withRetry has
\* thrown that same error.
C3_NoRetryOfOther ==
  \A p \in 1..Len(log) :
    (log[p].e = "reject" /\ ~NamesRetryableStatus(log[p].err)) =>
      /\ p = Len(log)
      /\ rs.status = "thrown"
      /\ ret = Settled("thrown", "", log[p].err)

\* the first invocation failed with a 400 error: one invocation, no wait
C3_Witness ==
  /\ log = <<EvCall, EvReject(Err(<<"4", "0", "0">>))>>
  /\ ret = Settled("thrown", "", Err(<<"4", "0", "0">>))

\* C4: fn is invoked at most maxRetries times and at most maxRetries - 1 waits
\* occur; when the last allowed invocation is rejected, withRetry has thrown
\* that error without a further wait; and withRetry eventually settles, given
\* that fn's calls settle and timers fire.
C4_Bounded ==
  /\ [](/\ Count(log, "call") <= rs.maxRetries
        /\ Count(log, "wait") <= rs.maxRetries - 1
        /\ (Count(log, "call") = rs.maxRetries /\ log[Len(log)].e = "reject") =>
              /\ rs.status = "thrown"
              /\ ret = Settled("thrown", "", log[Len(log)].err))
  /\ <>(ret.kind # "none")

\* three invocations, all rejected with a retryable error
C4_Witness ==
  /\ Count(log, "call") = DefaultMaxRetries
  /\ Count(log, "wait") = DefaultMaxRetries - 1
  /\ log[Len(log)].e = "reject"
  /\ NamesRetryableStatus(log[Len(log)].err)
  /\ ret.kind = "thrown"

\* the positions of item's entries for year y
EntriesOf(it, y) == {p \in 1..Len(it.arrears) : it.arrears[p].year = y}
LastEntryOf(it, y) == CHOOSE p \in EntriesOf(it, y) : \A q \in EntriesOf(it, y) : q <= p

\* C5: the arrears mapping of a record has exactly the keys
\* START_YEAR..END_YEAR; a year the item does not list maps to null, a year it
\* lists maps to the listed amount (the last one listed, 0 included); entries
\* of years out of range change nothing.
C5_Normalized ==
  out # <<>> =>
    LET r == out[1] IN
    /\ DOMAIN r.arrears = START_YEAR..END_YEAR
    /\ \A y \in START_YEAR..END_YEAR :
         IF EntriesOf(item, y) = {}
           THEN r.arrears[y] = Null
           ELSE r.arrears[y] = Num(item.arrears[LastEntryOf(item, y)].kurangBayar)
    /\ r.nop = item.nop /\ r.nama = item.nama /\ r.notes = <<>>

\* an item with an explicit 0, a year out of range and a configured year it
\* does not list
C5_Witness ==
  /\ out # <<>>
  /\ START_YEAR < END_YEAR
  /\ \E p, q \in 1..Len(item.arrears) :
       /\ item.arrears[p] = Entry(START_YEAR, 0)
       /\ ~InRange(item.arrears[q].year)
  /\ out[1].arrears[START_YEAR] = Num(0)
  /\ out[1].arrears[END_YEAR] = Null

RECURSIVE SumOver(_, _)
SumOver(f, S) ==
  IF S = {} THEN 0
  ELSE LET x == CHOOSE x \in S : TRUE IN f[x] + SumOver(f, S \ {x})

\* C6: total is the sum of the amounts > 0 of the normalised mapping; which is
\* the sum, over the configured years the item lists, of the listed amount
\* when it is > 0: entries of years out of range add nothing.
C6_Total ==
  out # <<>> =>
    LET r == out[1]
        pos == [y \in DOMAIN r.arrears |->
                  IF r.arrears[y] # Null /\ r.arrears[y][1] > 0 THEN r.arrears[y][1] ELSE 0]
        src == [y \in START_YEAR..END_YEAR |->
                  IF EntriesOf(item, y) = {} THEN 0
                  ELSE LET a == item.arrears[LastEntryOf(item, y)].kurangBayar
                       IN IF a > 0 THEN a ELSE 0]
    IN /\ r.total = SumOver(pos, DOMAIN r.arrears)
       /\ r.total = SumOver(src, START_YEAR..END_YEAR)

\* a negative amount in range and a positive amount out of range: total is 0
C6_Witness ==
  /\ out # <<>>
  /\ \E p, q \in 1..Len(item.arrears) :
       /\ InRange(item.arrears[p].year) /\ item.arrears[p].kurangBayar < 0
       /\ ~InRange(item.arrears[q].year) /\ item.arrears[q].kurangBayar > 0
  /\ out[1].total = 0

Occurrences(s, x) == Cardinality({k \in 1..Len(s) : s[k] = x})

\* C7: the duplicates reported are exactly the nop values that occur in two or
\* more records, each reported once; totalRecords is the length of the list.
C7_Duplicates ==
  summary # NoSummary =>
    LET nops == Nops(records)
        dup == summary.duplicates
    IN /\ summary.totalRecords = Len(records)
       /\ {dup[k] : k \in 1..Len(dup)} =
            {nops[k] : k \in {j \in 1..Len(nops) : Occurrences(nops, nops[j]) >= 2}}
       /\ \A k \in 1..Len(dup) : Occurrences(dup, dup[k]) = 1

\* the identifiers A, B, A, C, A
C7_Witness ==
  /\ summary # NoSummary
  /\ Nops(records) = <<"A", "B", "A", "C", "A">>
  /\ summary.duplicates = <<"A">>
  /\ summary.totalRecords = 5

\* C8: a batch that ended because the response text did not parse (the model
\* call had resolved, so it is not made again) shows the generic banner, never
\* the quota banner.
C8_ParseFailureGeneric ==
  last.cause = "parse" => last.banner = GagalBanner

InFlight == Cardinality({k \in DOMAIN active : active[k].pc = "call"})

\* C9: at most one generateContent call is in flight and at most one
\* handleFileUpload runs; a handler that has read file i+1 (0-based index i)
\* has seen i extractions settle and i pauses of 1500 ms elapse, and has
\* submitted no file it has not read.
C9_Sequential ==
  /\ InFlight <= 1
  /\ Len(active) <= 1
  /\ \A k \in DOMAIN active :
       LET h == active[k] IN
       /\ h.pc \in {"read", "readError", "call", "retryWait"} =>
            /\ h.reads = h.i + 1
            /\ h.settled = h.i
            /\ h.pauses = h.i
            /\ h.i > 0 => h.pauseMs = InterFileDelay
       /\ h.pc = "pause" => h.reads = h.i /\ h.settled = h.i /\ h.pauses = h.i - 1
       /\ h.pc \in {"call", "retryWait"} => h.submitted = h.i + 1
       /\ h.pc \in {"read", "readError", "pause"} => h.submitted = h.i

\* the second file's call is in flight, the first file's records are waiting,
\* and the list holds records of an earlier batch (so Clear and Export are
\* offered)
C9_Witness ==
  /\ Len(active) = 1
  /\ active[1].pc = "call"
  /\ active[1].i = 1
  /\ active[1].pauses = 1
  /\ active[1].newRecords # <<>>
  /\ Len(records) > 0
  /\ isLoading

\* A running handleFileUpload can take a further step
HandlerCanProgress ==
  \E k \in DOMAIN active : active[k].pc \in {"pause", "read", "call", "retryWait"}

\* C10: isLoading is never left true once the batch has stopped making progress
C10_LoadingCleared == isLoading => HandlerCanProgress

====
